---- MODULE Spec2Model ----
(***************************************************************************)
(* A model of cdf::CDataFile (src/src/CDataFile.cpp): the section list,    *)
(* the dirty flag, the policy flags, the file on disk, and the operations  *)
(* of the class.  A t_Str is a sequence of one-character strings, so that  *)
(* Trim, GetNextWord, CommentStr, Save's formatting and Load's line parser *)
(* are computed character by character as the code computes them.          *)
(***************************************************************************)
EXTENDS Integers, Sequences, FiniteSets, TLC

VARIABLES
    m_Sections,     \* SectionList: sequence of t_Section
    m_bDirty,       \* bool
    m_Flags,        \* subset of {AUTOCREATE_SECTIONS, AUTOCREATE_KEYS}
    m_szFileName,   \* t_Str
    disk,           \* the file named "f": [exists, text]
    call            \* the last call made on the object: operation, arguments, result

vars == <<m_Sections, m_bDirty, m_Flags, m_szFileName, disk, call>>

----------------------------------------------------------------------------
(* Bounds of the model *)

MaxSections == 2
MaxKeys == 1

----------------------------------------------------------------------------
(* Declarations of CDataFile.h *)

AUTOCREATE_SECTIONS == "AUTOCREATE_SECTIONS"
AUTOCREATE_KEYS == "AUTOCREATE_KEYS"

CommentIndicators == <<";">>
EqualIndicators == <<"=">>
WhiteSpace == <<" ", "\t", "\n", "\r">>

t_Key(szKey, szValue, szComment) ==
    [szKey |-> szKey, szValue |-> szValue, szComment |-> szComment]

t_Section(szName, szComment, Keys) ==
    [szName |-> szName, szComment |-> szComment, Keys |-> Keys]

\* new t_Section: every member default-constructed
NewSection == t_Section(<<>>, <<>>, <<>>)

----------------------------------------------------------------------------
(* std::string primitives, with npos read as the int -1 as the code does;  *)
(* positions are 0-based as in C++                                         *)

Chars(s) == {s[i] : i \in 1..Len(s)}

\* F applied to the value of v, with v evaluated once
Let(v, F(_)) == CHOOSE r \in {F(x) : x \in {v}} : TRUE

Min(S) == CHOOSE x \in S : \A y \in S : x <= y
Max(S) == CHOOSE x \in S : \A y \in S : x >= y

find_first_of(s, chars) ==
    LET P == {i \in 1..Len(s) : s[i] \in Chars(chars)}
    IN  IF P = {} THEN -1 ELSE Min(P) - 1

find_last_of(s, chars) ==
    LET P == {i \in 1..Len(s) : s[i] \in Chars(chars)}
    IN  IF P = {} THEN -1 ELSE Max(P) - 1

find_first_not_of(s, chars) ==
    LET P == {i \in 1..Len(s) : s[i] \notin Chars(chars)}
    IN  IF P = {} THEN -1 ELSE Min(P) - 1

find_last_not_of(s, chars) ==
    LET P == {i \in 1..Len(s) : s[i] \notin Chars(chars)}
    IN  IF P = {} THEN -1 ELSE Max(P) - 1

\* s.erase(pos, n) for 0 <= pos <= size
erase(s, pos, n) ==
    LET m == IF pos + n > Len(s) THEN Len(s) - pos ELSE n
    IN  SubSeq(s, 1, pos) \o SubSeq(s, pos + m + 1, Len(s))

\* s.substr(0, n)
substr0(s, n) == SubSeq(s, 1, n)

----------------------------------------------------------------------------
(* Utility functions *)

tolower(c) ==
    CASE c = "A" -> "a"
      [] c = "K" -> "k"
      [] c = "C" -> "c"
      [] OTHER -> c

\* strcasecmp: 0 when equal after case folding, otherwise non-zero
CompareNoCase(str1, str2) ==
    IF [i \in 1..Len(str1) |-> tolower(str1[i])]
       = [i \in 1..Len(str2) |-> tolower(str2[i])]
    THEN 0 ELSE 1

Trim(szStr) ==
    LET szTrimChars == WhiteSpace \o EqualIndicators
        nPos1 == find_first_not_of(szStr, szTrimChars)
        s1    == IF nPos1 > 0 THEN erase(szStr, 0, nPos1) ELSE szStr
        nPos  == find_last_not_of(s1, szTrimChars)
        rPos  == find_last_of(s1, szTrimChars)
    IN  IF rPos > nPos /\ rPos > -1
        THEN erase(s1, rPos, Len(s1) - rPos)
        ELSE s1

\* returns the word and what is left of CommandLine
GetNextWord(CommandLine) ==
    LET nPos == find_first_of(CommandLine, EqualIndicators)
    IN  IF nPos > -1
        THEN [sWord |-> Trim(substr0(CommandLine, nPos)),
              rest  |-> erase(CommandLine, 0, nPos + 1)]
        ELSE [sWord |-> Trim(CommandLine), rest |-> <<>>]

CommentStr(szComment) ==
    LET c == Trim(szComment)
    IN  IF Len(c) = 0 THEN c
        ELSE IF find_first_of(c, CommentIndicators) # 0
             THEN <<CommentIndicators[1], " ">> \o c
             ELSE c

\* vsnprintf into buf, then the terminator that follows the text is never a
\* line end, so one '\n' is always added
WriteLn(text) == text \o <<"\n">>

----------------------------------------------------------------------------
(* Lookups.  A pointer into a list is the 1-based index of the element,    *)
(* NULL is 0.                                                              *)

NULL == 0

GetSection(sections, szSection) ==
    LET P == {i \in 1..Len(sections) :
                 CompareNoCase(sections[i].szName, szSection) = 0}
    IN  IF P = {} THEN NULL ELSE Min(P)

GetKey(sections, szKey, szSection) ==
    LET pSection == GetSection(sections, szSection)
    IN  IF pSection = NULL THEN NULL
        ELSE LET Keys == sections[pSection].Keys
                 P == {i \in 1..Len(Keys) :
                          CompareNoCase(Keys[i].szKey, szKey) = 0}
             IN  IF P = {} THEN NULL ELSE Min(P)

SectionCount(sections) == Len(sections)

RECURSIVE KeyCount(_)
KeyCount(sections) ==
    IF sections = <<>> THEN 0
    ELSE Len(Head(sections).Keys) + KeyCount(Tail(sections))

HasSection(sections, szSection) == GetSection(sections, szSection) # NULL

GetValue(sections, szKey, szSection) ==
    LET pKey == GetKey(sections, szKey, szSection)
    IN  IF pKey = NULL
        THEN [found |-> FALSE, ret |-> <<>>]
        ELSE [found |-> TRUE,
              ret |-> sections[GetSection(sections, szSection)].Keys[pKey].szValue]

----------------------------------------------------------------------------
(* The operations on the document.  D is the part of the object they read  *)
(* and write: [sections, dirty, flags].  Each returns the document after   *)
(* the call and the value returned.                                        *)

Doc(sections, dirty, flags) ==
    [sections |-> sections, dirty |-> dirty, flags |-> flags]

Result(D, ret) == [D |-> D, ret |-> ret]

RemoveAt(seq, i) == SubSeq(seq, 1, i - 1) \o SubSeq(seq, i + 1, Len(seq))

CreateSection(D, szSection, szComment) ==
    IF GetSection(D.sections, szSection) # NULL
    THEN Result(D, FALSE)
    ELSE Result([D EXCEPT
                   !.sections = Append(@, t_Section(szSection, szComment, <<>>)),
                   !.dirty = TRUE],
                TRUE)

\* the overload taking a KeyList
CreateSectionKeys(D, szSection, szComment, Keys) ==
    LET r == CreateSection(D, szSection, szComment)
    IN  IF ~r.ret THEN Result(D, FALSE)
        ELSE LET pSection == GetSection(r.D.sections, szSection)
             IN  IF pSection = NULL THEN Result(r.D, FALSE)
                 ELSE LET filled ==
                              [r.D.sections EXCEPT
                                 ![pSection].szName = szSection,
                                 ![pSection].Keys = @ \o Keys]
                      IN  Result([r.D EXCEPT
                                    !.sections = Append(filled, filled[pSection]),
                                    !.dirty = TRUE],
                                 TRUE)

\* the flag never consulted
AutoCreateKeys_Always(flags) == TRUE

\* (m_Flags & AUTOCREATE_KEYS)
AutoCreateKeys(flags) == AUTOCREATE_KEYS \in flags

\* (m_Flags & AUTOCREATE_SECTIONS)
AutoCreateSections(flags) == AUTOCREATE_SECTIONS \in flags

\* only the comment stored
UpdateKey_CommentOnly(key, szValue, szComment) ==
    [key EXCEPT !.szComment = szComment]

\* pKey->szValue = szValue; pKey->szComment = szComment;
UpdateKey(key, szValue, szComment) ==
    [key EXCEPT !.szValue = szValue, !.szComment = szComment]

SetValue(D, szKey, szValue, szComment, szSection) ==
    LET pKey == GetKey(D.sections, szKey, szSection)
        pSection0 == GetSection(D.sections, szSection)
        created == IF pSection0 = NULL /\ AutoCreateSections(D.flags)
                   THEN CreateSection(D, szSection, <<>>)
                   ELSE Result(D, FALSE)
    IN  IF pSection0 = NULL /\ ~created.ret
        THEN Result(D, FALSE)
        ELSE LET D1 == IF pSection0 = NULL THEN created.D ELSE D
                 pSection == GetSection(D1.sections, szSection)
             IN  IF pSection = NULL THEN Result(D1, FALSE)
                 ELSE IF pKey = NULL /\ AutoCreateKeys(D1.flags)
                 THEN Result([D1 EXCEPT
                                !.sections[pSection].Keys =
                                    Append(@, t_Key(szKey, szValue, szComment)),
                                !.dirty = TRUE],
                             TRUE)
                 ELSE IF pKey # NULL
                 THEN Result([D1 EXCEPT
                                !.sections[pSection].Keys[pKey] =
                                    UpdateKey(@, szValue, szComment),
                                !.dirty = TRUE],
                             TRUE)
                 ELSE Result(D1, FALSE)

CreateKey(D, szKey, szValue, szComment, szSection) ==
    LET bAutoKey == AutoCreateKeys(D.flags)
        r == SetValue([D EXCEPT !.flags = @ \cup {AUTOCREATE_KEYS}],
                      szKey, szValue, szComment, szSection)
    IN  Result([r.D EXCEPT
                  !.flags = IF ~bAutoKey THEN @ \ {AUTOCREATE_KEYS} ELSE @],
               r.ret)

DeleteSection(D, szSection) ==
    LET s_pos == GetSection(D.sections, szSection)
    IN  IF s_pos = NULL THEN Result(D, FALSE)
        ELSE Result([D EXCEPT !.sections = RemoveAt(@, s_pos)], TRUE)

DeleteKey(D, szKey, szFromSection) ==
    LET pSection == GetSection(D.sections, szFromSection)
        k_pos == GetKey(D.sections, szKey, szFromSection)
    IN  IF pSection = NULL \/ k_pos = NULL THEN Result(D, FALSE)
        ELSE Result([D EXCEPT !.sections[pSection].Keys = RemoveAt(@, k_pos)],
                    TRUE)

SetKeyComment(D, szKey, szComment, szSection) ==
    LET pSection == GetSection(D.sections, szSection)
        k_pos == GetKey(D.sections, szKey, szSection)
    IN  IF pSection = NULL \/ k_pos = NULL THEN Result(D, FALSE)
        ELSE Result([D EXCEPT
                       !.sections[pSection].Keys[k_pos].szComment = szComment,
                       !.dirty = TRUE],
                    TRUE)

SetSectionComment(D, szSection, szComment) ==
    LET s_pos == GetSection(D.sections, szSection)
    IN  IF s_pos = NULL THEN Result(D, FALSE)
        ELSE Result([D EXCEPT
                       !.sections[s_pos].szComment = szComment,
                       !.dirty = TRUE],
                    TRUE)

----------------------------------------------------------------------------
(* Save: the text written to the file *)

\* || in place of &&
NothingToSave_Either(sections) ==
    KeyCount(sections) = 0 \/ SectionCount(sections) = 0

\* KeyCount() == 0 && SectionCount() == 0
NothingToSave(sections) == KeyCount(sections) = 0 /\ SectionCount(sections) = 0

SaveKey(Key) ==
    IF Len(Key.szKey) > 0
    THEN WriteLn((IF Len(Key.szComment) > 0 THEN <<"\n">> ELSE <<>>)
                 \o CommentStr(Key.szComment)
                 \o (IF Len(Key.szComment) > 0 THEN <<"\n">> ELSE <<>>)
                 \o Key.szKey \o <<EqualIndicators[1]>> \o Key.szValue)
    ELSE <<>>

RECURSIVE SaveKeys(_)
SaveKeys(Keys) ==
    IF Keys = <<>> THEN <<>>
    ELSE SaveKey(Head(Keys)) \o SaveKeys(Tail(Keys))

SaveSection(Section) ==
    LET bWroteComment == Len(Section.szComment) > 0
    IN  (IF bWroteComment
         THEN WriteLn(<<"\n">> \o CommentStr(Section.szComment))
         ELSE <<>>)
        \o (IF Len(Section.szName) > 0
            THEN WriteLn((IF bWroteComment THEN <<>> ELSE <<"\n">>)
                         \o <<"[">> \o Section.szName \o <<"]">>)
            ELSE <<>>)
        \o SaveKeys(Section.Keys)

RECURSIVE SaveSections(_)
SaveSections(sections) ==
    IF sections = <<>> THEN <<>>
    ELSE SaveSection(Head(sections)) \o SaveSections(Tail(sections))

NoFile == [exists |-> FALSE, text |-> <<>>]
File(text) == [exists |-> TRUE, text |-> text]

\* canOpen: whether std::ofstream could open m_szFileName for writing.
\* Returns the document, the value returned and the file afterwards.
Save(D, szFileName, file, canOpen) ==
    IF NothingToSave(D.sections)
    THEN [D |-> D, ret |-> FALSE, file |-> file]
    ELSE IF Len(szFileName) = 0
    THEN [D |-> D, ret |-> FALSE, file |-> file]
    ELSE IF ~canOpen
    THEN [D |-> D, ret |-> FALSE, file |-> file]
    ELSE [D |-> [D EXCEPT !.dirty = FALSE], ret |-> TRUE,
          file |-> File(SaveSections(D.sections))]

----------------------------------------------------------------------------
(* Load: the line parser *)

\* File.getline until eof: the text between line ends, the piece after the
\* last line end included (it is empty when the text ends with a line end)
RECURSIVE GetLines(_, _)
GetLines(text, line) ==
    IF text = <<>> THEN <<line>>
    ELSE IF Head(text) = "\n" THEN <<line>> \o GetLines(Tail(text), <<>>)
    ELSE GetLines(Tail(text), Append(line, Head(text)))

\* the flags left as the caller set them
ForceAutoCreate_Not(flags) == flags

\* m_Flags |= AUTOCREATE_KEYS; m_Flags |= AUTOCREATE_SECTIONS;
ForceAutoCreate(flags) == flags \cup {AUTOCREATE_KEYS, AUTOCREATE_SECTIONS}

\* One turn of the while loop on the line read.  st is [D, pSection, szComment,
\* outcome]; outcome "throw" is std::out_of_range leaving Load (erase at npos),
\* outcome "crash" is SetValue reading pSection->szName through a null pSection.
LoadLine(st, buffer) ==
    LET szLine == Trim(buffer)
    IN  IF find_first_of(szLine, CommentIndicators) = 0
        THEN [st EXCEPT !.szComment = @ \o <<"\n">> \o szLine]
        ELSE IF find_first_of(szLine, <<"[">>) = 0
        THEN LET l1 == erase(szLine, 0, 1)
                 p  == find_last_of(l1, <<"]">>)
             IN  IF p = -1 THEN [st EXCEPT !.outcome = "throw"]
                 ELSE LET name == erase(l1, p, 1)
                          D1 == CreateSection(st.D, name, st.szComment).D
                      IN  [st EXCEPT !.D = D1,
                                     !.pSection = GetSection(D1.sections, name),
                                     !.szComment = <<>>]
        ELSE IF Len(szLine) > 0
        THEN LET w == GetNextWord(szLine)
             IN  IF Len(w.sWord) > 0
                 THEN IF st.pSection = NULL
                      THEN [st EXCEPT !.outcome = "crash"]
                      ELSE [st EXCEPT
                              !.D = SetValue(st.D, w.sWord, w.rest, st.szComment,
                                             st.D.sections[st.pSection].szName).D,
                              !.szComment = <<>>]
                 ELSE st
        ELSE st

RECURSIVE LoadLines(_, _)
LoadLines(st, lines) ==
    IF lines = <<>> \/ st.outcome # "return" THEN st
    ELSE Let(LoadLine(st, Head(lines)), LAMBDA st1 : LoadLines(st1, Tail(lines)))

\* the end of Load: the flags restored, true returned; nothing of it is reached
\* when the loop was left by an exception or the process died
LoadEnd(st, bAutoKey, bAutoSec) ==
    IF st.outcome # "return"
    THEN [D |-> st.D, ret |-> FALSE, outcome |-> st.outcome]
    ELSE [D |-> [st.D EXCEPT
                   !.flags = (@ \ (IF ~bAutoKey THEN {AUTOCREATE_KEYS} ELSE {}))
                               \ (IF ~bAutoSec THEN {AUTOCREATE_SECTIONS}
                                               ELSE {})],
          ret |-> TRUE, outcome |-> "return"]

\* Returns the document, the value returned and how the call ended.
Load(D, file) ==
    IF ~file.exists
    THEN [D |-> D, ret |-> FALSE, outcome |-> "return"]
    ELSE Let(LoadLines([D |-> [D EXCEPT !.flags = ForceAutoCreate(@)],
                        pSection |-> GetSection(D.sections, <<>>),
                        szComment |-> <<>>,
                        outcome |-> "return"],
                       GetLines(file.text, <<>>)),
             LAMBDA st : LoadEnd(st, AutoCreateKeys(D.flags),
                                 AutoCreateSections(D.flags)))

----------------------------------------------------------------------------
(* The arguments the calls are made with, and the files found on disk *)

SectionNames == {<<>>, <<"a">>, <<"A">>}
KeyNames == {<<"k">>, <<"K">>}
Values == {<<"1">>, <<"2">>}
Comments == {<<>>, <<"c">>}
KeyComments == {<<"c">>}
\* the second list holds two keys of the same name
KeyLists ==
    {<<>>,
     <<t_Key(<<"k">>, <<"1">>, <<"c">>), t_Key(<<"K">>, <<"2">>, <<"c">>)>>}
FlagSets == SUBSET {AUTOCREATE_SECTIONS, AUTOCREATE_KEYS}

\* "k=1\n"
KeyFile == <<"k", "=", "1", "\n">>
\* ";c\n\nk=1\n": a comment, a blank line, a key
CommentedKeyFile == <<";", "c", "\n", "\n", "k", "=", "1", "\n">>
\* "K=2\n;c\n;C\n \n[a]": a key, two comment lines, a blank line, a header
CommentedSectionFile ==
    <<"K", "=", "2", "\n", ";", "c", "\n", ";", "C", "\n", " ", "\n",
      "[", "a", "]">>
\* "[a": a header that is never closed
OpenHeaderFile == <<"[", "a">>

InitialFiles ==
    {NoFile, File(KeyFile), File(CommentedKeyFile), File(CommentedSectionFile),
     File(OpenHeaderFile)}

\* the section list stays within MaxSections
SectionsFit(sections) == Len(sections) <= MaxSections

\* a call that adds keys one at a time grows no section beyond MaxKeys
KeysFit(old, new) ==
    \A i \in 1..Len(new) :
        \/ Len(new[i].Keys) <= MaxKeys
        \/ i <= Len(old) /\ Len(new[i].Keys) <= Len(old[i].Keys)

----------------------------------------------------------------------------
(* The state machine *)

Cur == Doc(m_Sections, m_bDirty, m_Flags)

Called(op, ret) ==
    [op |-> op, ret |-> ret, outcome |-> "return",
     szKey |-> <<>>, szSection |-> <<>>, szValue |-> <<>>, env |-> TRUE]

\* the process is still running
Alive == call.outcome # "crash"

Becomes(D, c) ==
    /\ Alive
    /\ SectionsFit(D.sections)
    /\ m_Sections' = D.sections
    /\ m_bDirty' = D.dirty
    /\ m_Flags' = D.flags
    /\ call' = c

\* CDataFile(): Clear(), both flags, the default section
InitDefault ==
    /\ m_Sections = <<NewSection>>
    /\ m_bDirty = FALSE
    /\ m_Flags = {AUTOCREATE_SECTIONS, AUTOCREATE_KEYS}
    /\ m_szFileName = <<>>
    /\ call = Called("CDataFile", TRUE)

\* CDataFile(szFileName) with szFileName = "f": both flags, the default section,
\* Load, m_bDirty = false.  An object exists only if Load did not throw.
InitFromFile ==
    /\ \E r \in {Load(Doc(<<NewSection>>, FALSE,
                          {AUTOCREATE_SECTIONS, AUTOCREATE_KEYS}), disk)} :
           /\ r.outcome = "return"
           /\ SectionsFit(r.D.sections)
           /\ KeysFit(<<>>, r.D.sections)
           /\ m_Sections = r.D.sections
           /\ m_Flags = r.D.flags
           /\ call = [Called("CDataFile(szFileName)", r.ret) EXCEPT
                        !.env = disk.exists]
    /\ m_bDirty = FALSE
    /\ m_szFileName = <<"f">>

\* an object made by CDataFile(), nothing on disk
Init == disk = NoFile /\ InitDefault

\* an object made by either constructor, any of the files on disk
InitFiles == disk \in InitialFiles /\ (InitDefault \/ InitFromFile)

DoSetValue ==
    \E k \in KeyNames, v \in Values, c \in KeyComments, s \in SectionNames :
        \E r \in {SetValue(Cur, k, v, c, s)} :
            /\ KeysFit(m_Sections, r.D.sections)
            /\ Becomes(r.D, [Called("SetValue", r.ret) EXCEPT
                               !.szKey = k, !.szSection = s, !.szValue = v])
            /\ UNCHANGED <<m_szFileName, disk>>

DoCreateKey ==
    \E k \in KeyNames, v \in Values, c \in KeyComments, s \in SectionNames :
        \E r \in {CreateKey(Cur, k, v, c, s)} :
            /\ KeysFit(m_Sections, r.D.sections)
            /\ Becomes(r.D, Called("CreateKey", r.ret))
            /\ UNCHANGED <<m_szFileName, disk>>

DoCreateSection ==
    \E s \in SectionNames, c \in Comments :
        \E r \in {CreateSection(Cur, s, c)} :
            /\ Becomes(r.D, Called("CreateSection", r.ret))
            /\ UNCHANGED <<m_szFileName, disk>>

DoCreateSectionKeys ==
    \E s \in SectionNames, c \in Comments, Keys \in KeyLists :
        \E r \in {CreateSectionKeys(Cur, s, c, Keys)} :
            /\ Becomes(r.D, [Called("CreateSectionKeys", r.ret) EXCEPT
                               !.szSection = s])
            /\ UNCHANGED <<m_szFileName, disk>>

DoDeleteSection ==
    \E s \in SectionNames :
        \E r \in {DeleteSection(Cur, s)} :
            /\ Becomes(r.D, Called("DeleteSection", r.ret))
            /\ UNCHANGED <<m_szFileName, disk>>

DoDeleteKey ==
    \E k \in KeyNames, s \in SectionNames :
        \E r \in {DeleteKey(Cur, k, s)} :
            /\ Becomes(r.D, Called("DeleteKey", r.ret))
            /\ UNCHANGED <<m_szFileName, disk>>

DoSetSectionComment ==
    \E s \in SectionNames, c \in Comments :
        \E r \in {SetSectionComment(Cur, s, c)} :
            /\ Becomes(r.D, Called("SetSectionComment", r.ret))
            /\ UNCHANGED <<m_szFileName, disk>>

DoSetKeyComment ==
    \E k \in KeyNames, c \in KeyComments, s \in SectionNames :
        \E r \in {SetKeyComment(Cur, k, c, s)} :
            /\ Becomes(r.D, Called("SetKeyComment", r.ret))
            /\ UNCHANGED <<m_szFileName, disk>>

\* the caller changes the policy flags
DoSetFlags ==
    \E f \in FlagSets :
        /\ f # m_Flags
        /\ Becomes([Cur EXCEPT !.flags = f], Called("SetFlags", TRUE))
        /\ UNCHANGED <<m_szFileName, disk>>

\* Load("f"), or Load of a name no file has
DoLoad ==
    \E named \in BOOLEAN :
        \E r \in {Load(Cur, IF named THEN disk ELSE NoFile)} :
            /\ KeysFit(m_Sections, r.D.sections)
            /\ Becomes(r.D, [Called("Load", r.ret) EXCEPT
                               !.outcome = r.outcome,
                               !.env = named /\ disk.exists])
            /\ UNCHANGED <<m_szFileName, disk>>

DoSave ==
    \E canOpen \in BOOLEAN :
        \E r \in {Save(Cur, m_szFileName, disk, canOpen)} :
            /\ Becomes(r.D, [Called("Save", r.ret) EXCEPT !.env = canOpen])
            /\ disk' = r.file
            /\ UNCHANGED m_szFileName

\* the Accessor API
Next ==
    \/ DoSetValue
    \/ DoCreateKey
    \/ DoCreateSection
    \/ DoCreateSectionKeys
    \/ DoSetSectionComment
    \/ DoSetKeyComment
    \/ DoDeleteKey
    \/ DoDeleteSection
    \/ DoSetFlags

Spec == Init /\ [][Next]_vars

\* Load on documents made by the constructors, the flags and the deletions
NextLoad ==
    \/ DoLoad
    \/ DoSetFlags
    \/ DoDeleteKey
    \/ DoDeleteSection

SpecLoad == InitFiles /\ [][NextLoad]_vars

\* Save on documents made by the constructors, sections created and deleted
NextSave ==
    \/ DoSave
    \/ DoCreateSection
    \/ DoDeleteKey
    \/ DoDeleteSection

SpecSave == InitFiles /\ [][NextSave]_vars

\* setting and looking up values, in documents whose sections and keys may be
\* duplicated (CreateSectionKeys) or removed, under every flag setting
NextKeys ==
    \/ DoSetValue
    \/ DoCreateSectionKeys
    \/ DoDeleteKey
    \/ DoDeleteSection
    \/ DoSetFlags

SpecKeys == Init /\ [][NextKeys]_vars

----------------------------------------------------------------------------
(* Properties *)

Both == {AUTOCREATE_SECTIONS, AUTOCREATE_KEYS}

DefaultSections == {i \in 1..Len(m_Sections) : Len(m_Sections[i].szName) = 0}

\* C1: in every reachable state the document holds exactly one section whose
\* name is the empty string
C1_OneDefaultSection == Cardinality(DefaultSections) = 1

\* C2: in every reachable state no two sections have names equal without regard
\* to case, and a successful CreateSection(name, comment, keys) leaves exactly
\* one section named name
C2_UniqueSectionNames ==
    /\ \A i, j \in 1..Len(m_Sections) :
           i # j => CompareNoCase(m_Sections[i].szName, m_Sections[j].szName) # 0
    /\ (call.op = "CreateSectionKeys" /\ call.ret)
           => Cardinality({i \in 1..Len(m_Sections) :
                  CompareNoCase(m_Sections[i].szName, call.szSection) = 0}) = 1

Mutations ==
    {"SetValue", "CreateSection", "CreateSectionKeys", "DeleteKey",
     "DeleteSection", "SetSectionComment", "SetKeyComment"}

\* C3: a mutating call that starts with the dirty flag clear and returns
\* success leaves the dirty flag set
C3_MutationSetsDirty ==
    [][(~m_bDirty /\ call'.op \in Mutations /\ call'.ret) => m_bDirty']_vars

\* C4: the dirty flag is clear right after every successful load, in the
\* constructor and in an explicit Load
C4_LoadClearsDirty ==
    (/\ call.op \in {"Load", "CDataFile(szFileName)"}
     /\ call.outcome = "return"
     /\ call.ret)
        => ~m_bDirty

\* what Load makes of the text Save writes for the sections, in a new document
Reparsed(sections) ==
    Load(Doc(<<NewSection>>, FALSE, Both), File(SaveSections(sections))).D.sections

\* comments compared after the normalisation Save applies to them
SameComment(c1, c2) == CommentStr(c1) = CommentStr(c2)

SameKeys(K1, K2) ==
    /\ Len(K1) = Len(K2)
    /\ \A i \in 1..Len(K1) :
           /\ K1[i].szKey = K2[i].szKey
           /\ K1[i].szValue = K2[i].szValue
           /\ SameComment(K1[i].szComment, K2[i].szComment)

Equivalent(S1, S2) ==
    /\ Len(S1) = Len(S2)
    /\ \A i \in 1..Len(S1) :
           /\ S1[i].szName = S2[i].szName
           /\ SameComment(S1[i].szComment, S2[i].szComment)
           /\ SameKeys(S1[i].Keys, S2[i].Keys)

\* C5: parsing the text Save writes for the document gives the same sections in
\* the same order, with the same names, comments, keys and values
C5_RoundTrip ==
    ~NothingToSave(m_Sections) => Equivalent(Reparsed(m_Sections), m_Sections)

NoSectionAndNoKey ==
    /\ Len(m_Sections) = 0
    /\ \A i \in 1..Len(m_Sections) : Len(m_Sections[i].Keys) = 0

\* C6: Save returns failure and changes neither the file nor the document
\* when the document has no section and no key, when no file name is set or
\* when the file cannot be opened; in every other case it returns success, the
\* file holds the whole document, the dirty flag is clear and the sections are
\* as they were
C6_Save ==
    [][call'.op = "Save" =>
        IF NoSectionAndNoKey \/ m_szFileName = <<>> \/ ~call'.env
        THEN /\ ~call'.ret
             /\ disk' = disk
             /\ m_bDirty' = m_bDirty
             /\ m_Sections' = m_Sections
             /\ m_Flags' = m_Flags
        ELSE /\ call'.ret
             /\ disk' = File(SaveSections(m_Sections))
             /\ ~m_bDirty'
             /\ m_Sections' = m_Sections
             /\ m_Flags' = m_Flags]_vars

\* a Save that could not open the file has just failed and left in place the
\* text an earlier Save wrote
C6_Witness ==
    /\ call.op = "Save"
    /\ ~call.ret
    /\ ~call.env
    /\ m_bDirty
    /\ disk.exists
    /\ disk \notin InitialFiles

\* C7: SetValue on a section that exists and has no key of that name fails and
\* leaves KeyCount as it was when AUTOCREATE_KEYS is off, and succeeds and adds
\* one to KeyCount when it is on
C7_AutoCreateKeys ==
    [][(/\ call'.op = "SetValue"
        /\ GetSection(m_Sections, call'.szSection) # NULL
        /\ GetKey(m_Sections, call'.szKey, call'.szSection) = NULL)
         => IF AUTOCREATE_KEYS \in m_Flags
            THEN call'.ret /\ KeyCount(m_Sections') = KeyCount(m_Sections) + 1
            ELSE ~call'.ret /\ KeyCount(m_Sections') = KeyCount(m_Sections)]_vars

\* SetValue has just failed on a section that exists, for a key it does not
\* hold, with AUTOCREATE_KEYS off
C7_Witness ==
    /\ call.op = "SetValue"
    /\ ~call.ret
    /\ AUTOCREATE_KEYS \notin m_Flags
    /\ GetSection(m_Sections, call.szSection) # NULL
    /\ GetKey(m_Sections, call.szKey, call.szSection) = NULL
    /\ KeyCount(m_Sections) > 0

\* the names and sections a caller may look a key up by after SetValue(k, ., ., s)
SameNames(k, s) ==
    {n \in KeyNames \X SectionNames :
        CompareNoCase(n[1], k) = 0 /\ CompareNoCase(n[2], s) = 0}

\* C9: after a successful SetValue(k, v, c, s), GetValue(k2, s2) succeeds with
\* the value v for every k2 and s2 equal to k and s without regard to case
C9_GetAfterSet ==
    (call.op = "SetValue" /\ call.ret)
        => \A n \in SameNames(call.szKey, call.szSection) :
               GetValue(m_Sections, n[1], n[2]) = [found |-> TRUE, ret |-> call.szValue]

\* SetValue has just succeeded on a section that holds two keys of that name,
\* asked for under another spelling of the key and of the section
C9_Witness ==
    /\ call.op = "SetValue"
    /\ call.ret
    /\ LET pSection == GetSection(m_Sections, call.szSection)
           Keys == m_Sections[pSection].Keys
       IN  /\ Len(Keys) = 2
           /\ CompareNoCase(Keys[1].szKey, Keys[2].szKey) = 0
           /\ Keys[1].szKey # call.szKey
           /\ Keys[1].szValue # Keys[2].szValue
           /\ m_Sections[pSection].szName # call.szSection

----------------------------------------------------------------------------
(* What a file holds, by the format: comment lines, section headers and    *)
(* key lines, each header and key with the comment lines that precede it   *)

IsCommentLine(t) == Len(t) > 0 /\ t[1] \in Chars(CommentIndicators)
IsHeaderLine(t) == Len(t) > 0 /\ t[1] = "[" /\ "]" \in Chars(t)
HeaderName(t) == erase(erase(t, 0, 1), find_last_of(erase(t, 0, 1), <<"]">>), 1)
IsKeyLine(t) ==
    /\ Len(t) > 0
    /\ ~IsCommentLine(t)
    /\ t[1] # "["
    /\ Len(GetNextWord(t).sWord) > 0

RECURSIVE FoundFrom(_, _, _, _)
FoundFrom(lines, i, cur, pending) ==
    IF i > Len(lines) THEN <<>>
    ELSE LET t == Trim(lines[i])
         IN  IF IsCommentLine(t)
             THEN FoundFrom(lines, i + 1, cur, Append(pending, t))
             ELSE IF IsHeaderLine(t)
             THEN <<[kind |-> "section", szSection |-> HeaderName(t),
                     szKey |-> <<>>, comments |-> pending]>>
                  \o FoundFrom(lines, i + 1, HeaderName(t), <<>>)
             ELSE IF IsKeyLine(t)
             THEN <<[kind |-> "key", szSection |-> cur,
                     szKey |-> GetNextWord(t).sWord, comments |-> pending]>>
                  \o FoundFrom(lines, i + 1, cur, <<>>)
             ELSE FoundFrom(lines, i + 1, cur, pending)

\* the sections and keys of the file on disk, in order
Found == FoundFrom(GetLines(disk.text, <<>>), 1, <<>>, <<>>)

\* the lines joined by one '\n' between consecutive lines
RECURSIVE JoinLines(_)
JoinLines(ls) ==
    IF Len(ls) = 0 THEN <<>>
    ELSE IF Len(ls) = 1 THEN ls[1]
    ELSE ls[1] \o <<"\n">> \o JoinLines(Tail(ls))

Exists(sections, f) ==
    IF f.kind = "section" THEN GetSection(sections, f.szSection) # NULL
    ELSE GetKey(sections, f.szKey, f.szSection) # NULL

StoredComment(sections, f) ==
    LET pSection == GetSection(sections, f.szSection)
    IN  IF f.kind = "section" THEN sections[pSection].szComment
        ELSE sections[pSection].Keys[GetKey(sections, f.szKey, f.szSection)].szComment

Loaded ==
    /\ call.op \in {"Load", "CDataFile(szFileName)"}
    /\ call.outcome = "return"
    /\ call.ret

\* C8: after Load, a key or section that followed a run of comment lines, with
\* or without blank lines between, has as its comment those lines joined by one
\* '\n', with no '\n' before the first
C8_CommentJoined ==
    Loaded => \A i \in 1..Len(Found) :
                  Len(Found[i].comments) > 0
                      => /\ Exists(m_Sections, Found[i])
                         /\ StoredComment(m_Sections, Found[i])
                                = JoinLines(Found[i].comments)

\* C10: a Load that returns leaves the policy flags as they were, and when it
\* returns true every section and key of the file exists, whatever the flags
C10_LoadKeepsFlags ==
    [][(call'.op = "Load" /\ call'.outcome = "return")
         => /\ m_Flags' = m_Flags
            /\ call'.ret => \A i \in 1..Len(Found) : Exists(m_Sections', Found[i])]_vars

\* Load has just returned true with both flags off, on an object that loaded
\* nothing when it was made, and the document holds a section and a key of the
\* file
C10_Witness ==
    /\ call.op = "Load"
    /\ call.ret
    /\ m_Flags = {}
    /\ m_szFileName = <<>>
    /\ \E i, j \in 1..Len(Found) :
           /\ Found[i].kind = "section" /\ Found[j].kind = "key"
           /\ Exists(m_Sections, Found[i]) /\ Exists(m_Sections, Found[j])

\* C11: a SetValue call that returns failure leaves the section list, every
\* key list and the dirty flag as they were before the call, under every
\* setting of AUTOCREATE_SECTIONS and AUTOCREATE_KEYS
C11_FailedSetValueUnchanged ==
    [][(call'.op = "SetValue" /\ ~call'.ret)
         => (m_Sections' = m_Sections /\ m_bDirty' = m_bDirty)]_vars

====
